---- MODULE Spec2Model ----
(***************************************************************************)
(* Model of the sustainability scoring service (src/app.py).               *)
(*                                                                         *)
(* Numbers are fixed point.  A score is an integer number of hundredths    *)
(* (8500 is 85.00), a weight an integer number of thousandths (400 is      *)
(* 0.40); gwp, circularity and cost are whole numbers.  On the inputs used *)
(* here the fixed-point results equal the floating-point results of the    *)
(* Python code, rounding included.                                         *)
(*                                                                         *)
(* Text is a sequence of one-character strings.                            *)
(***************************************************************************)
EXTENDS Integers, Sequences, FiniteSets

VARIABLES
    submissions,  \* the module-level list of submission records
    resp,         \* the response to the latest request
    lastReq,      \* the latest request: its route and the body it carried
    calls,        \* external text-generation calls attempted by the latest request
    okCount,      \* POST /score requests answered 200 since the latest POST /clear
    cleared,      \* TRUE from a POST /clear until the next successful POST /score
    pc,           \* position of the in-flight GET /score-summary handler
    sScores,      \* its local list `scores`
    sRatings,     \* its local list `ratings`
    seen,         \* store states that existed while it was in flight
    scIn,         \* arguments of calculate_sustainability_score under test
    scOut,        \* its result
    sgIn,         \* outcome of the external call given to get_ai_suggestions
    sgOut         \* its result

vars == <<submissions, resp, lastReq, calls, okCount, cleared,
          pc, sScores, sRatings, seen, scIn, scOut, sgIn, sgOut>>

storeVars == <<submissions, resp, lastReq, calls, okCount, cleared>>
summaryVars == <<pc, sScores, sRatings, seen>>
scorerVars == <<scIn, scOut>>
suggestVars == <<sgIn, sgOut>>

----------------------------------------------------------------------------
(* Bounds of the model *)

MaxStore == 2
MaxTime == 2
MaxTextLen == 3
MaxBullets == 6
MaxSeen == 3

----------------------------------------------------------------------------
(* Helpers *)

Abs(x) == IF x < 0 THEN -x ELSE x

Min2(a, b) == IF a < b THEN a ELSE b

Max2(a, b) == IF a > b THEN a ELSE b

RECURSIVE SumSeq(_)
SumSeq(s) == IF s = <<>> THEN 0 ELSE Head(s) + SumSeq(Tail(s))

RECURSIVE MinSeq(_)
MinSeq(s) == IF Len(s) = 1 THEN s[1] ELSE Min2(s[1], MinSeq(Tail(s)))

RECURSIVE MaxSeq(_)
MaxSeq(s) == IF Len(s) = 1 THEN s[1] ELSE Max2(s[1], MaxSeq(Tail(s)))

\* floor division that is also right for a negative numerator
FloorDiv(n, d) == IF n >= 0 THEN n \div d ELSE -((-n + d - 1) \div d)

\* Python's round(): n/d to the nearest integer, a tie to the even one
RoundHalfEven(n, d) ==
    LET q == FloorDiv(n, d)
        r == n - q * d
    IN  IF 2 * r > d \/ (2 * r = d /\ q % 2 = 1) THEN q + 1 ELSE q

----------------------------------------------------------------------------
(* Scorer *)

WeightKeys == {"gwp", "circularity", "cost"}

DEFAULT_WEIGHTS == [gwp |-> 400, circularity |-> 350, cost |-> 250]

Raised(e) == [ok |-> FALSE, exc |-> e, value |-> 0]

Returned(v) == [ok |-> TRUE, exc |-> "", value |-> v]

\* the tolerance of the weight check, 0.01, in thousandths
WeightTolerance == 10

WeightsAccepted(weight_sum) == ~(Abs(weight_sum - 1000) > WeightTolerance)

Clamp(lo, hi, x) == Max2(lo, Min2(hi, x))

\* lines 43-57: the three sub-scores in tenths, their weighted sum in
\* ten-thousandths, rounded to hundredths
WeightedSum(gwp, circularity, cost, weights) ==
    LET gwp_normalized == Clamp(0, 100, gwp)
        gwp_score == (100 - gwp_normalized) * 10
        circularity_score == Clamp(0, 100, circularity) * 10
        cost_normalized == Clamp(0, 1000, cost)
        cost_score == 1000 - cost_normalized
    IN  RoundHalfEven(gwp_score * weights["gwp"]
                      + circularity_score * weights["circularity"]
                      + cost_score * weights["cost"], 100)

\* a missing key raises KeyError at line 39, a bad sum ValueError at line 41
calculate_sustainability_score(gwp, circularity, cost, weights) ==
    IF ~(WeightKeys \subseteq DOMAIN weights)
    THEN Raised("KeyError")
    ELSE LET weight_sum == weights["gwp"] + weights["circularity"] + weights["cost"]
         IN  IF ~WeightsAccepted(weight_sum)
             THEN Raised("ValueError")
             ELSE Returned(WeightedSum(gwp, circularity, cost, weights))

----------------------------------------------------------------------------
(* Rater *)

get_rating(score) ==
    IF score >= 8500 THEN "A"
    ELSE IF score >= 7000 THEN "B"
    ELSE IF score >= 5500 THEN "C"
    ELSE IF score >= 4000 THEN "D"
    ELSE "F"

Ratings == <<"A", "B", "C", "D", "F">>

----------------------------------------------------------------------------
(* SuggestionProvider *)

Whitespace == {" ", "\n"}

RECURSIVE LStrip(_, _)
LStrip(s, chars) ==
    IF s # <<>> /\ Head(s) \in chars THEN LStrip(Tail(s), chars) ELSE s

RECURSIVE RStrip(_, _)
RStrip(s, chars) ==
    IF s # <<>> /\ s[Len(s)] \in chars
    THEN RStrip(SubSeq(s, 1, Len(s) - 1), chars)
    ELSE s

\* str.strip(chars); str.strip() is StripChars(s, Whitespace)
StripChars(s, chars) == RStrip(LStrip(s, chars), chars)

\* str.split(sep): the pieces between the separators, at least one piece
RECURSIVE Split(_, _)
Split(s, sep) ==
    IF \A i \in DOMAIN s : s[i] # sep
    THEN <<s>>
    ELSE LET k == CHOOSE i \in DOMAIN s :
                      s[i] = sep /\ \A j \in 1..(i - 1) : s[j] # sep
         IN  <<SubSeq(s, 1, k - 1)>> \o Split(SubSeq(s, k + 1, Len(s)), sep)

StartsWithDash(s) == s # <<>> /\ Head(s) = "-"

\* line 117: the bullet lines of the text, marker and blanks removed
RECURSIVE BulletItems(_)
BulletItems(lines) ==
    IF lines = <<>> THEN <<>>
    ELSE LET s == Head(lines)
             rest == BulletItems(Tail(lines))
         IN  IF StartsWithDash(StripChars(s, Whitespace))
             THEN <<StripChars(StripChars(s, {"-", " "}), Whitespace)>> \o rest
             ELSE rest

\* lines 116-118
ParseSuggestions(text) ==
    LET suggestions_text == StripChars(text, Whitespace)
        suggestions == BulletItems(Split(suggestions_text, "\n"))
    IN  SubSeq(suggestions, 1, Min2(5, Len(suggestions)))

\* the three fixed sentences of lines 121-125, each written as two characters
FallbackSuggestions == << <<"F", "1">>, <<"F", "2">>, <<"F", "3">> >>

ExtRaise == [kind |-> "raise", text |-> <<>>]

ExtMalformed == [kind |-> "malformed", text |-> <<>>]

ExtText(t) == [kind |-> "text", text |-> t]

\* a provider that calls the service a second time after a failure
get_ai_suggestions_retrying(ext) ==
    IF ext.kind = "text"
    THEN [suggestions |-> ParseSuggestions(ext.text), attempts |-> 1]
    ELSE [suggestions |-> FallbackSuggestions, attempts |-> 2]

\* ext is what the external service does with the one request sent to it: it
\* raises, answers with an empty content list (content[0] raises IndexError),
\* or answers with text.  attempts counts the requests sent to it.
get_ai_suggestions(ext) ==
    IF ext.kind = "text"
    THEN [suggestions |-> ParseSuggestions(ext.text), attempts |-> 1]
    ELSE [suggestions |-> FallbackSuggestions, attempts |-> 1]

----------------------------------------------------------------------------
(* Requests *)

EmptyDict == [k \in {} |-> 0]

W1005 == [gwp |-> 405, circularity |-> 350, cost |-> 250]

W500 == [gwp |-> 200, circularity |-> 200, cost |-> 100]

WLackingCost == [gwp |-> 500, circularity |-> 500]

\* a POST /score body: missing says that a required field is absent
Body(missing, gwp, circularity, cost, hasWeights, weights) ==
    [missing |-> missing, gwp |-> gwp, circularity |-> circularity,
     cost |-> cost, hasWeights |-> hasWeights, weights |-> weights]

NoBody == Body(FALSE, 0, 0, 0, FALSE, EmptyDict)

Products == {<<0, 100, 0>>, <<100, 100, 600>>}

\* bodies that pass the checks of lines 133-139 and 39-41
ValidBodies ==
    {Body(FALSE, p[1], p[2], p[3], FALSE, EmptyDict) : p \in Products}
    \cup {Body(FALSE, p[1], p[2], p[3], TRUE, W1005) : p \in Products}

\* a body lacking a required field, one whose weights sum to 0.5 and one
\* whose weights lack the key cost
RejectedBodies ==
    {Body(TRUE, 0, 100, 0, FALSE, EmptyDict),
     Body(FALSE, 0, 100, 0, TRUE, W500),
     Body(FALSE, 0, 100, 0, TRUE, WLackingCost)}

ScoreBodies == ValidBodies \cup RejectedBodies

ExternalOutcomes == {ExtRaise, ExtText(<<"-", " ", "a">>)}

Timestamps == 1..MaxTime

----------------------------------------------------------------------------
(* POST /score *)

NoRecord == [score |-> 0, rating |-> "", suggestions |-> <<>>, timestamp |-> 0]

Reply(status, result, record, attempts) ==
    [status |-> status, result |-> result, record |-> record, attempts |-> attempts]

ErrorBody(msg) == [error |-> msg]

\* lines 130-181.  now is the value of datetime.now() at line 162.  Of the
\* record of lines 165-173 the fields score, rating, suggestions and timestamp
\* are kept; the issues and the copied request fields are left out.
calculate_score(data, ext, now) ==
    IF data.missing
    THEN Reply(400, ErrorBody("Missing required fields"), NoRecord, 0)
    ELSE LET weights == IF data.hasWeights THEN data.weights ELSE DEFAULT_WEIGHTS
             sc == calculate_sustainability_score(
                       data.gwp, data.circularity, data.cost, weights)
         IN  IF ~sc.ok
             THEN IF sc.exc = "ValueError"
                  THEN Reply(400, ErrorBody("Weights must sum to 1.0"), NoRecord, 0)
                  ELSE Reply(500, ErrorBody("Internal error"), NoRecord, 0)
             ELSE LET score == sc.value
                      rating == get_rating(score)
                      ai == get_ai_suggestions(ext)
                      result == [sustainability_score |-> score,
                                 rating |-> rating,
                                 suggestions |-> ai.suggestions,
                                 timestamp |-> now]
                      submission_record == [score |-> score,
                                            rating |-> rating,
                                            suggestions |-> ai.suggestions,
                                            timestamp |-> now]
                  IN  Reply(200, result, submission_record, ai.attempts)

\* insertion at the front of the list
StorePrepend(store, record) == <<record>> \o store

\* line 174
StoreAppend(store, record) == Append(store, record)

ScoreStep(data, ext, now) ==
    \E out \in {calculate_score(data, ext, now)} :
        /\ out.status = 200 => Len(submissions) < MaxStore
        /\ submissions' = IF out.status = 200
                          THEN StoreAppend(submissions, out.record)
                          ELSE submissions
        /\ resp' = [op |-> "score", status |-> out.status, body |-> out.result]
        /\ lastReq' = [route |-> "score", body |-> data, ext |-> ext]
        /\ calls' = out.attempts
        /\ okCount' = IF out.status = 200 THEN okCount + 1 ELSE okCount
        /\ cleared' = IF out.status = 200 THEN FALSE ELSE cleared

ScoreRequest(bodies, outcomes, times) ==
    \E data \in bodies, ext \in outcomes, now \in times :
        ScoreStep(data, ext, now)

PostScoreStep == ScoreRequest(ScoreBodies, ExternalOutcomes, Timestamps)

----------------------------------------------------------------------------
(* GET /history *)

RECURSIVE InsertDesc(_, _)
InsertDesc(sorted, x) ==
    IF sorted = <<>> THEN <<x>>
    ELSE IF Head(sorted).timestamp >= x.timestamp
         THEN <<Head(sorted)>> \o InsertDesc(Tail(sorted), x)
         ELSE <<x>> \o sorted

\* sorted() without reverse=True
RECURSIVE InsertAsc(_, _)
InsertAsc(sorted, x) ==
    IF sorted = <<>> THEN <<x>>
    ELSE IF Head(sorted).timestamp <= x.timestamp
         THEN <<Head(sorted)>> \o InsertAsc(Tail(sorted), x)
         ELSE <<x>> \o sorted

RECURSIVE SortedAscending(_)
SortedAscending(s) ==
    IF s = <<>> THEN <<>>
    ELSE InsertAsc(SortedAscending(SubSeq(s, 1, Len(s) - 1)), s[Len(s)])

\* line 187: sorted(..., reverse=True), a new list; records of equal timestamp
\* keep their order
RECURSIVE SortedByTimestampDesc(_)
SortedByTimestampDesc(s) ==
    IF s = <<>> THEN <<>>
    ELSE InsertDesc(SortedByTimestampDesc(SubSeq(s, 1, Len(s) - 1)), s[Len(s)])

get_history(store) ==
    LET history == SortedByTimestampDesc(store)
    IN  [status |-> 200,
         body |-> [count |-> Len(history), submissions |-> history]]

HistoryStep ==
    \E out \in {get_history(submissions)} :
        /\ resp' = [op |-> "history", status |-> out.status, body |-> out.body]
        /\ lastReq' = [route |-> "history", body |-> NoBody, ext |-> ExtRaise]
        /\ calls' = 0
        /\ UNCHANGED <<submissions, okCount, cleared>>

----------------------------------------------------------------------------
(* GET /score-summary *)

RatingSet == {Ratings[i] : i \in DOMAIN Ratings}

ScoresOf(store) == [i \in DOMAIN store |-> store[i].score]

RatingsOf(store) == [i \in DOMAIN store |-> store[i].rating]

\* lines 213-215
RatingCounts(ratings) ==
    [r \in RatingSet |-> Cardinality({i \in DOMAIN ratings : ratings[i] = r})]

\* bands whose top band stops at 100
ScoreRangeCapped(scores) ==
    [excellent |-> Cardinality({i \in DOMAIN scores : 8500 <= scores[i] /\ scores[i] <= 10000}),
     good      |-> Cardinality({i \in DOMAIN scores : 7000 <= scores[i] /\ scores[i] < 8500}),
     fair      |-> Cardinality({i \in DOMAIN scores : 5500 <= scores[i] /\ scores[i] < 7000}),
     poor      |-> Cardinality({i \in DOMAIN scores : 4000 <= scores[i] /\ scores[i] < 5500}),
     failing   |-> Cardinality({i \in DOMAIN scores : scores[i] < 4000})]

\* lines 242-248
ScoreRange(scores) ==
    [excellent |-> Cardinality({i \in DOMAIN scores : scores[i] >= 8500}),
     good      |-> Cardinality({i \in DOMAIN scores : 7000 <= scores[i] /\ scores[i] < 8500}),
     fair      |-> Cardinality({i \in DOMAIN scores : 5500 <= scores[i] /\ scores[i] < 7000}),
     poor      |-> Cardinality({i \in DOMAIN scores : 4000 <= scores[i] /\ scores[i] < 5500}),
     failing   |-> Cardinality({i \in DOMAIN scores : scores[i] < 4000})]

\* lines 202-208: the answer for an empty store
EmptySummary ==
    [status |-> 200,
     body |-> [total_products |-> 0, average_score |-> 0,
               ratings |-> EmptyDict, top_issues |-> <<>>]]

\* lines 213-252 for the lists read at lines 210 and 211 and the length read
\* at line 237.  min() of an empty list raises, which the handler answers
\* with 500.  median_score, std_dev and top_issues are left out.
SummaryOf(scores, ratings, total) ==
    IF scores = <<>>
    THEN [status |-> 500, body |-> ErrorBody("min() arg is an empty sequence")]
    ELSE [status |-> 200,
          body |-> [total_products |-> total,
                    average_score |-> RoundHalfEven(SumSeq(scores), Len(scores)),
                    ratings |-> RatingCounts(ratings),
                    distribution |-> [min_score |-> MinSeq(scores),
                                      max_score |-> MaxSeq(scores)],
                    score_range |-> ScoreRange(scores)]]

\* the handler run without interruption on one store state
get_summary(store) ==
    IF store = <<>>
    THEN EmptySummary
    ELSE SummaryOf(ScoresOf(store), RatingsOf(store), Len(store))

SummaryRequest == [route |-> "summary", body |-> NoBody, ext |-> ExtRaise]

SummaryStep ==
    \E out \in {get_summary(submissions)} :
        /\ resp' = [op |-> "summary", status |-> out.status, body |-> out.body]
        /\ lastReq' = SummaryRequest
        /\ calls' = 0
        /\ UNCHANGED <<submissions, okCount, cleared>>

----------------------------------------------------------------------------
(* POST /clear *)

\* an assignment that does not reach the global list
KeptStore(store) == store

\* line 259
ClearedStore(store) == <<>>

ClearStep ==
    /\ submissions' = ClearedStore(submissions)
    /\ resp' = [op |-> "clear", status |-> 200,
                body |-> [message |-> "All data cleared"]]
    /\ lastReq' = [route |-> "clear", body |-> NoBody, ext |-> ExtRaise]
    /\ calls' = 0
    /\ okCount' = 0
    /\ cleared' = TRUE

----------------------------------------------------------------------------
(* The service, one request handled at a time *)

NoResponse == [op |-> "none", status |-> 0, body |-> EmptyDict]

NoRequest == [route |-> "none", body |-> NoBody, ext |-> ExtRaise]

StoreInit ==
    /\ submissions = <<>>
    /\ resp = NoResponse
    /\ lastReq = NoRequest
    /\ calls = 0
    /\ okCount = 0
    /\ cleared = FALSE

SummaryIdle ==
    /\ pc = "idle"
    /\ sScores = <<>>
    /\ sRatings = <<>>
    /\ seen = {}

NoScorerInput == [gwp |-> 0, circularity |-> 0, cost |-> 0, weights |-> EmptyDict]

ScorerIdle ==
    /\ scIn = NoScorerInput
    /\ scOut = [done |-> FALSE, res |-> Raised("")]

SuggestIdle ==
    /\ sgIn = ExtRaise
    /\ sgOut = [done |-> FALSE, suggestions |-> <<>>, attempts |-> 0]

Init == StoreInit /\ SummaryIdle /\ ScorerIdle /\ SuggestIdle

PostScore == PostScoreStep /\ UNCHANGED <<summaryVars, scorerVars, suggestVars>>

GetHistory == HistoryStep /\ UNCHANGED <<summaryVars, scorerVars, suggestVars>>

GetSummary == SummaryStep /\ UNCHANGED <<summaryVars, scorerVars, suggestVars>>

PostClear == ClearStep /\ UNCHANGED <<summaryVars, scorerVars, suggestVars>>

Next == PostScore \/ GetHistory \/ GetSummary \/ PostClear

Spec == Init /\ [][Next]_vars

----------------------------------------------------------------------------
(* The service with GET /score-summary handled by a thread of its own: the  *)
(* handler reads the global list at lines 201, 210, 211 and 237, and POST   *)
(* /score and POST /clear requests of other threads run between its reads.  *)

\* while a summary request is in flight the store states it overlaps are
\* recorded, MaxSeen of them at most
Watch ==
    IF pc = "idle"
    THEN seen' = seen
    ELSE /\ seen' = seen \cup {submissions'}
         /\ Cardinality(seen') <= MaxSeen

\* the requests of the other threads: default weights, one clock value
ConcBodies ==
    {Body(FALSE, p[1], p[2], p[3], FALSE, EmptyDict) : p \in Products}
    \cup {Body(TRUE, 0, 100, 0, FALSE, EmptyDict)}

ConcPostScore ==
    /\ ScoreRequest(ConcBodies, {ExtRaise}, {1})
    /\ Watch
    /\ UNCHANGED <<pc, sScores, sRatings, scorerVars, suggestVars>>

ConcPostClear ==
    /\ ClearStep
    /\ Watch
    /\ UNCHANGED <<pc, sScores, sRatings, scorerVars, suggestVars>>

\* line 201, and the answer of lines 202-208 when the list is empty
SummaryBegin ==
    /\ pc = "idle"
    /\ seen' = {submissions}
    /\ lastReq' = SummaryRequest
    /\ calls' = 0
    /\ IF submissions = <<>>
       THEN /\ resp' = [op |-> "summary", status |-> EmptySummary.status,
                        body |-> EmptySummary.body]
            /\ pc' = "idle"
       ELSE /\ resp' = NoResponse
            /\ pc' = "l210"
    /\ UNCHANGED <<submissions, okCount, cleared, sScores, sRatings,
                   scorerVars, suggestVars>>

\* line 210
SummaryReadScores ==
    /\ pc = "l210"
    /\ sScores' = ScoresOf(submissions)
    /\ pc' = "l211"
    /\ UNCHANGED <<storeVars, sRatings, seen, scorerVars, suggestVars>>

\* line 211
SummaryReadRatings ==
    /\ pc = "l211"
    /\ sRatings' = RatingsOf(submissions)
    /\ pc' = "l237"
    /\ UNCHANGED <<storeVars, sScores, seen, scorerVars, suggestVars>>

\* lines 213-252, with len(submissions) read at line 237
SummaryRespond ==
    /\ pc = "l237"
    /\ \E out \in {SummaryOf(sScores, sRatings, Len(submissions))} :
           resp' = [op |-> "summary", status |-> out.status, body |-> out.body]
    /\ pc' = "idle"
    /\ sScores' = <<>>
    /\ sRatings' = <<>>
    /\ UNCHANGED <<submissions, lastReq, calls, okCount, cleared, seen,
                   scorerVars, suggestVars>>

ConcNext ==
    \/ ConcPostScore
    \/ ConcPostClear
    \/ SummaryBegin
    \/ SummaryReadScores
    \/ SummaryReadRatings
    \/ SummaryRespond

ConcSpec == Init /\ [][ConcNext]_vars

----------------------------------------------------------------------------
(* calculate_sustainability_score on its own *)

W995 == [gwp |-> 395, circularity |-> 350, cost |-> 250]

WNegative == [gwp |-> 2000, circularity |-> -1000, cost |-> 0]

WGwpOnly == [gwp |-> 1000, circularity |-> 0, cost |-> 0]

ScorerWeights == {DEFAULT_WEIGHTS, W1005, W995, W500, WNegative, WGwpOnly}

ScorerInputs ==
    [gwp : {0, 50, 100, 150}, circularity : {-5, 0, 50, 100},
     cost : {0, 500, 1000, 2000}, weights : ScorerWeights]

ScorerInit ==
    /\ scIn \in ScorerInputs
    /\ scOut = [done |-> FALSE, res |-> Raised("")]
    /\ StoreInit /\ SummaryIdle /\ SuggestIdle

ApplyScorer ==
    /\ ~scOut.done
    /\ scOut' = [done |-> TRUE,
                 res |-> calculate_sustainability_score(
                             scIn.gwp, scIn.circularity, scIn.cost, scIn.weights)]
    /\ UNCHANGED <<scIn, storeVars, summaryVars, suggestVars>>

ScorerNext == ApplyScorer

ScorerSpec == ScorerInit /\ [][ScorerNext]_vars

----------------------------------------------------------------------------
(* get_ai_suggestions on its own *)

TextAlphabet == {"-", " ", "a", "\n"}

ShortTexts == UNION {[1..n -> TextAlphabet] : n \in 0..MaxTextLen}

\* k bullet lines
RECURSIVE BulletText(_)
BulletText(k) ==
    IF k = 0 THEN <<>>
    ELSE IF k = 1 THEN <<"-", " ", "a">>
    ELSE <<"-", " ", "a", "\n">> \o BulletText(k - 1)

SuggestInputs ==
    {ExtRaise, ExtMalformed}
    \cup {ExtText(t) : t \in ShortTexts}
    \cup {ExtText(BulletText(k)) : k \in 0..MaxBullets}

SuggestInit ==
    /\ sgIn \in SuggestInputs
    /\ sgOut = [done |-> FALSE, suggestions |-> <<>>, attempts |-> 0]
    /\ StoreInit /\ SummaryIdle /\ ScorerIdle

ApplySuggest ==
    /\ ~sgOut.done
    /\ \E out \in {get_ai_suggestions(sgIn)} :
           sgOut' = [done |-> TRUE, suggestions |-> out.suggestions,
                     attempts |-> out.attempts]
    /\ UNCHANGED <<sgIn, storeVars, summaryVars, scorerVars>>

SuggestNext == ApplySuggest

SuggestSpec == SuggestInit /\ [][SuggestNext]_vars

----------------------------------------------------------------------------
(* Properties *)

PassesValidation(body) ==
    /\ ~body.missing
    /\ body.hasWeights =>
           /\ WeightKeys \subseteq DOMAIN body.weights
           /\ Abs(body.weights["gwp"] + body.weights["circularity"]
                  + body.weights["cost"] - 1000) <= WeightTolerance

StoredWithRating(r) ==
    Cardinality({i \in DOMAIN submissions : submissions[i].rating = r})

\* C1: every stored record has a score in [0,100] and the rating that
\* get_rating gives for its score.
C1_StoredRecordsWellFormed ==
    \A i \in DOMAIN submissions :
        /\ 0 <= submissions[i].score
        /\ submissions[i].score <= 10000
        /\ submissions[i].rating = get_rating(submissions[i].score)

\* C2: for gwp and circularity in [0,100], cost in [0,1000] and weights that
\* sum to 1.0 within 0.01 the score is in [0,100]; with the default weights
\* (0,100,0) scores 100.00 and (100,0,1000) scores 0.00.
C2_ScoreInRange ==
    scOut.done =>
        /\ ( /\ scIn.gwp \in 0..100
             /\ scIn.circularity \in 0..100
             /\ scIn.cost \in 0..1000
             /\ Abs(scIn.weights["gwp"] + scIn.weights["circularity"]
                    + scIn.weights["cost"] - 1000) <= WeightTolerance )
           => (scOut.res.ok /\ scOut.res.value \in 0..10000)
        /\ ( /\ scIn.weights = DEFAULT_WEIGHTS
             /\ scIn.gwp = 0 /\ scIn.circularity = 100 /\ scIn.cost = 0 )
           => (scOut.res.ok /\ scOut.res.value = 10000)
        /\ ( /\ scIn.weights = DEFAULT_WEIGHTS
             /\ scIn.gwp = 100 /\ scIn.circularity = 0 /\ scIn.cost = 1000 )
           => (scOut.res.ok /\ scOut.res.value = 0)

\* the external call failed: it raised, its answer had no content, or its
\* text holds no line that starts with a bullet marker
ExternalFailure(ext) ==
    \/ ext.kind # "text"
    \/ \A i \in DOMAIN Split(ext.text, "\n") :
           ~StartsWithDash(LStrip(Split(ext.text, "\n")[i], Whitespace))

\* C3: on every failure of the external call, a text without bullet lines
\* included, the result is the 3-item fallback list; the result is never
\* empty and never longer than 5.
C3_FallbackOnEveryFailure ==
    sgOut.done =>
        /\ ExternalFailure(sgIn) => sgOut.suggestions = FallbackSuggestions
        /\ sgOut.suggestions # <<>>
        /\ Len(sgOut.suggestions) <= 5

C5_MalformedAnswered400 ==
    /\ [](  (lastReq.route = "score" /\ ~PassesValidation(lastReq.body)) =>
               (resp.status = 400 /\ calls = 0))
    /\ [](  ( /\ lastReq.route = "score"
              /\ ~lastReq.body.missing
              /\ lastReq.body.hasWeights
              /\ lastReq.body.weights = W1005 ) => resp.status = 200)
    /\ [][ (lastReq'.route = "score" /\ ~PassesValidation(lastReq'.body)) =>
               submissions' = submissions ]_vars

\* C6: each POST /score answered 200 appends exactly one record to the end
\* of the store and leaves the earlier records as they were, no other
\* request but POST /clear changes the store, and the store size is the
\* number of POST /score requests answered 200 since the latest POST /clear.
C6_OneRecordPerSuccess ==
    /\ [](Len(submissions) = okCount)
    /\ [][ (resp'.op = "score" /\ resp'.status = 200) =>
               /\ Len(submissions') = Len(submissions) + 1
               /\ SubSeq(submissions', 1, Len(submissions)) = submissions
               /\ submissions'[Len(submissions')].score
                      = resp'.body.sustainability_score
               /\ submissions'[Len(submissions')].timestamp
                      = resp'.body.timestamp ]_vars
    /\ [][ (resp'.op # "clear" /\ ~(resp'.op = "score" /\ resp'.status = 200)) =>
               submissions' = submissions ]_vars

C6_Witness ==
    /\ resp.op = "score"
    /\ resp.status = 200
    /\ okCount = 2
    /\ Len(submissions) = 2
    /\ submissions[1] # submissions[2]

\* C7: POST /clear always answers 200; after it, as long as no POST /score
\* succeeds, GET /history answers count 0 with no submissions and GET
\* /score-summary answers total_products 0 and average_score 0.
C7_ClearEmptiesStore ==
    /\ resp.op = "clear" => resp.status = 200
    /\ (cleared /\ resp.op = "history") =>
           /\ resp.status = 200
           /\ resp.body.count = 0
           /\ resp.body.submissions = <<>>
    /\ (cleared /\ resp.op = "summary") =>
           /\ resp.status = 200
           /\ resp.body.total_products = 0
           /\ resp.body.average_score = 0

C7_Witness ==
    /\ cleared
    /\ resp.op = "summary"
    /\ resp.body.total_products = 0
    /\ submissions = <<>>

SumCounts(f) == SumSeq([i \in DOMAIN Ratings |-> f[Ratings[i]]])

\* C8: a GET /score-summary that overlaps POST /score and POST /clear
\* requests is answered 200 with a body that describes one store state that
\* existed during the request, so its rating counts sum to total_products;
\* it is never answered 500.
C8_SummaryIsSnapshot ==
    (pc = "idle" /\ resp.op = "summary") =>
        /\ resp.status = 200
        /\ \E store \in seen : resp.body = get_summary(store).body
        /\ (resp.body.total_products > 0 =>
               SumCounts(resp.body.ratings) = resp.body.total_products)

BandOf(rating) ==
    CASE rating = "A" -> "excellent"
      [] rating = "B" -> "good"
      [] rating = "C" -> "fair"
      [] rating = "D" -> "poor"
      [] rating = "F" -> "failing"

SummaryCountsMatchStore ==
    /\ resp.status = 200
    /\ resp.body.total_products = Len(submissions)
    /\ DOMAIN resp.body.ratings = RatingSet
    /\ "score_range" \in DOMAIN resp.body
    /\ \A r \in RatingSet :
           /\ resp.body.ratings[r] = StoredWithRating(r)
           /\ resp.body.score_range[BandOf(r)] = resp.body.ratings[r]
    /\ SumCounts(resp.body.ratings) = resp.body.total_products

Occurrences(s, x) == Cardinality({i \in DOMAIN s : s[i] = x})

\* C10: GET /history answers with count equal to the store size and every
\* stored record exactly once, ordered by timestamp descending, and leaves
\* the store as it was.
C10_HistoryIsSortedCopy ==
    /\ [](resp.op = "history" =>
             /\ resp.status = 200
             /\ resp.body.count = Len(submissions)
             /\ Len(resp.body.submissions) = Len(submissions)
             /\ \A i \in DOMAIN submissions :
                    Occurrences(resp.body.submissions, submissions[i])
                        = Occurrences(submissions, submissions[i])
             /\ \A i, j \in DOMAIN resp.body.submissions :
                    i < j => resp.body.submissions[i].timestamp
                                 >= resp.body.submissions[j].timestamp)
    /\ [][resp'.op = "history" => submissions' = submissions]_vars

C10_Witness ==
    /\ resp.op = "history"
    /\ Len(submissions) = 2
    /\ submissions[1].timestamp < submissions[2].timestamp
    /\ resp.body.submissions = <<submissions[2], submissions[1]>>

====
